---- MODULE Spec2Model ----
(***************************************************************************)
(* mytar.py: a toy archiver with a create mode (c) and an extract mode (x). *)
(* The archive is a sequence of records                                     *)
(*   [4 bytes] filename length (big-endian)   [N bytes] filename (utf-8)    *)
(*   [8 bytes] file size (big-endian)         [M bytes] file contents       *)
(* The model follows the program system call by system call: every os.open, *)
(* os.fstat, os.read, os.write and os.close is one step.  A byte is a       *)
(* number in 0..255, a str is a sequence of code points, a file is a        *)
(* sequence of bytes, and the file system maps the names that exist to      *)
(* their contents.                                                          *)
(***************************************************************************)
EXTENDS Integers, Sequences, FiniteSets, TLC

(***************************************************************************)
(* Bounds of the model.                                                     *)
(***************************************************************************)
\* the longest list of paths given to "mytar.py c"
MaxFiles == 2
\* a read that returns less than it could returns 1..MaxShort bytes
MaxShort == 1

(***************************************************************************)
(* Program constants.                                                       *)
(***************************************************************************)
BUF_SIZE == 4096
\* width of the filename length field and of the file size field
LEN_WIDTH == 4
SIZE_WIDTH == 8

Min(a, b) == IF a < b THEN a ELSE b

\* b"".join(chunks), for chunks kept joined
join(chunks) == chunks

(***************************************************************************)
(* Python's int is unbounded and TLC's is 32 bits wide, so an int decoded   *)
(* from the archive is held as a sign and the base-256 numeral of its       *)
(* magnitude, most significant digit first and without leading zeros (the   *)
(* magnitude 0 is the empty numeral).                                       *)
(***************************************************************************)
RECURSIVE Strip(_)
Strip(d) == IF d # <<>> /\ Head(d) = 0 THEN Strip(Tail(d)) ELSE d

RECURSIVE NumInc(_)
\* the numeral of the successor
NumInc(d) ==
  IF d = <<>> THEN <<1>>
  ELSE IF d[Len(d)] < 255 THEN [d EXCEPT ![Len(d)] = @ + 1]
  ELSE Append(NumInc(SubSeq(d, 1, Len(d) - 1)), 0)

\* a variant that decodes with signed=True (two's complement)
int_from_bytes_signed(raw) ==
  IF raw # <<>> /\ raw[1] >= 128
  THEN [neg |-> TRUE, mag |-> NumInc(Strip([i \in DOMAIN raw |-> 255 - raw[i]]))]
  ELSE [neg |-> FALSE, mag |-> Strip(raw)]

\* int.from_bytes(raw, 'big'): signed defaults to False
int_from_bytes(raw) == [neg |-> FALSE, mag |-> Strip(raw)]

\* the magnitude is small enough to be a TLC integer (below 2^24)
NumFits(d) == Len(d) <= 3

RECURSIVE NumVal(_)
NumVal(d) ==
  IF d = <<>> THEN 0 ELSE NumVal(SubSeq(d, 1, Len(d) - 1)) * 256 + d[Len(d)]

RECURSIVE NumOf(_)
NumOf(n) == IF n = 0 THEN <<>> ELSE Append(NumOf(n \div 256), n % 256)

\* the Python int of a TLC integer k >= 0
PyInt(k) == [neg |-> FALSE, mag |-> NumOf(k)]

\* n < 0
IntNegative(n) == n.neg

\* a variant that tests n < 0
IntNotPositive_neg(n) == n.neg

\* n <= 0
IntNotPositive(n) == n.neg \/ n.mag = <<>>

\* a variant that tests n >= 0
IntPositive_zero(n) == ~n.neg

\* n > 0
IntPositive(n) == ~n.neg /\ n.mag # <<>>

\* min(k, n) for a TLC integer k >= 0 and a Python int n >= 0
IntMin(k, n) == IF NumFits(n.mag) /\ NumVal(n.mag) < k THEN NumVal(n.mag) ELSE k

\* k < n for a TLC integer k >= 0 and a Python int n
IntGreater(n, k) == ~n.neg /\ (~NumFits(n.mag) \/ NumVal(n.mag) > k)

RECURSIVE NumSubRaw(_, _)
NumSubRaw(d, k) ==
  IF k = 0 THEN d
  ELSE LET low  == d[Len(d)]
           rest == SubSeq(d, 1, Len(d) - 1)
           need == k % 256
       IN IF low >= need
          THEN Append(NumSubRaw(rest, k \div 256), low - need)
          ELSE Append(NumSubRaw(rest, (k \div 256) + 1), low + 256 - need)

\* n - k for a Python int n and a TLC integer k with 0 <= k <= n
IntSub(n, k) == [neg |-> FALSE, mag |-> Strip(NumSubRaw(n.mag, k))]

\* n.to_bytes(w, 'big') for a Python int n with 0 <= n < 256^w: the numeral,
\* padded with zero bytes on the left to w bytes
to_bytes(n, w) ==
  [i \in 1..w |-> IF i <= w - Len(n.mag) THEN 0 ELSE n.mag[i - (w - Len(n.mag))]]

(***************************************************************************)
(* UTF-8.  A str is a sequence of Unicode scalar values (no surrogates), so *)
(* str.encode('utf-8') is total; bytes.decode('utf-8') raises               *)
(* UnicodeDecodeError on anything that is not a sequence of shortest        *)
(* encodings of scalar values.                                              *)
(***************************************************************************)
EncodeCp(cp) ==
  IF cp < 128 THEN <<cp>>
  ELSE IF cp < 2048 THEN <<192 + (cp \div 64), 128 + (cp % 64)>>
  ELSE IF cp < 65536
       THEN <<224 + (cp \div 4096), 128 + ((cp \div 64) % 64), 128 + (cp % 64)>>
  ELSE <<240 + (cp \div 262144), 128 + ((cp \div 4096) % 64),
         128 + ((cp \div 64) % 64), 128 + (cp % 64)>>

RECURSIVE str_encode(_)
\* name.encode('utf-8')
str_encode(s) == IF s = <<>> THEN <<>> ELSE EncodeCp(Head(s)) \o str_encode(Tail(s))

IsCont(b) == b >= 128 /\ b <= 191

\* the number of bytes of the sequence that starts with lead byte b, 0 if none does
SeqLen(b) ==
  IF b < 128 THEN 1
  ELSE IF b >= 194 /\ b <= 223 THEN 2
  ELSE IF b >= 224 /\ b <= 239 THEN 3
  ELSE IF b >= 240 /\ b <= 244 THEN 4
  ELSE 0

\* bs starts with one well-formed sequence
WellFormedHead(bs) ==
  LET b == bs[1]
      n == SeqLen(b)
  IN /\ n > 0
     /\ Len(bs) >= n
     /\ \A i \in 2..n : IsCont(bs[i])
     /\ (b = 224 => bs[2] >= 160)
     /\ (b = 237 => bs[2] <= 159)
     /\ (b = 240 => bs[2] >= 144)
     /\ (b = 244 => bs[2] <= 143)

DecodeHead(bs) ==
  LET b == bs[1]
      n == SeqLen(b)
  IN IF n = 1 THEN b
     ELSE IF n = 2 THEN (b - 192) * 64 + (bs[2] - 128)
     ELSE IF n = 3 THEN (b - 224) * 4096 + (bs[2] - 128) * 64 + (bs[3] - 128)
     ELSE (b - 240) * 262144 + (bs[2] - 128) * 4096 + (bs[3] - 128) * 64
          + (bs[4] - 128)

RECURSIVE CanDecode(_)
CanDecode(bs) ==
  \/ bs = <<>>
  \/ /\ WellFormedHead(bs)
     /\ CanDecode(SubSeq(bs, SeqLen(bs[1]) + 1, Len(bs)))

RECURSIVE bytes_decode(_)
\* name_bytes.decode('utf-8'), for bytes that CanDecode
bytes_decode(bs) ==
  IF bs = <<>> THEN <<>>
  ELSE <<DecodeHead(bs)>> \o bytes_decode(SubSeq(bs, SeqLen(bs[1]) + 1, Len(bs)))

(***************************************************************************)
(* The inputs: paths, file contents, and archive streams.                   *)
(***************************************************************************)
NameA == <<97>>
NameE == <<233>>
NameEuro == <<8364, 98>>
NameBig == <<128512>>
SmallNames == {NameA, NameE, NameEuro}
SmallContents == {<<>>, <<0>>, <<255, 10, 7>>}
\* a file one byte longer than the transfer buffer
BigContent == [i \in 1..(BUF_SIZE + 1) |-> i % 256]
\* what a file holds before an extraction overwrites it
OldContent == <<1, 2, 3, 4>>
\* the values a corrupted byte takes
BadBytes == {0, 128, 255}

Range(s) == {s[i] : i \in DOMAIN s}

SeqsUpTo(S, n) == UNION {[1..k -> S] : k \in 1..n}

\* the file systems that hold some of the names N, each with a small content
FilesOver(N) == UNION {[S -> SmallContents] : S \in SUBSET N}

\* one archive record: the format of the module docstring
Record(nb, data) ==
  to_bytes(PyInt(Len(nb)), LEN_WIDTH) \o nb \o to_bytes(PyInt(Len(data)), SIZE_WIDTH)
    \o data

RECURSIVE Archive(_)
\* the archive of a list of records [name, data]
Archive(recs) ==
  IF recs = <<>> THEN <<>>
  ELSE Record(str_encode(Head(recs).name), Head(recs).data) \o Archive(Tail(recs))

Recs ==
  { [name |-> NameA, data |-> <<>>],
    [name |-> NameE, data |-> <<0>>],
    [name |-> NameEuro, data |-> <<255, 10, 7>>] }

Archives == {Archive(l) : l \in SeqsUpTo(Recs, MaxFiles) \cup {<<>>}}

\* an archive cut off anywhere
Truncations == UNION {{SubSeq(a, 1, k) : k \in 0..Len(a)} : a \in Archives}

\* an archive with one byte replaced
Corruptions ==
  UNION {{[a EXCEPT ![i] = v] : i \in DOMAIN a, v \in BadBytes} : a \in Archives}

\* a zero filename length between two archives
ZeroLengths ==
  {a \o to_bytes(PyInt(0), LEN_WIDTH) \o b :
     a \in {Archive(l) : l \in SeqsUpTo(Recs, 1) \cup {<<>>}}, b \in Archives}

\* an archive that holds a name twice, with less content the second time
Rewritten ==
  {Archive(<<[name |-> NameE, data |-> <<255, 10, 7>>], [name |-> NameE, data |-> <<0>>]>>)}

Streams == Truncations \cup Corruptions \cup ZeroLengths \cup Rewritten

\* a stream that announces a filename longer than the transfer buffer and ends
\* before the last byte of it, with more than a buffer of it there
LongName ==
  {to_bytes(PyInt(BUF_SIZE + 2), LEN_WIDTH) \o [i \in 1..(BUF_SIZE + 1) |-> 97]}

(***************************************************************************)
(* The state.                                                               *)
(***************************************************************************)
VARIABLES
  mode,         \* sys.argv[1]: "c" or "x"
  pc,           \* the statement the process is at
  filenames,    \* sys.argv[2:], the paths to archive
  idx,          \* the position of the for loop of create_archive in filenames
  fs,           \* the file system: the names that exist, each with its content
  stdin,        \* the bytes on descriptor 0, up to the end of the stream
  inPos,        \* how many bytes of stdin have been read
  stdout,       \* the bytes written to descriptor 1
  stderr,       \* the lines written to descriptor 2
  status,       \* the exit status, -1 while the process runs
  shortReads,   \* whether os.read may return fewer bytes than are available
  fd,           \* create_archive: the descriptor of the file being archived
  out_fd,       \* extract_archive: the descriptor of the file being written
  name,         \* the current file name (a str)
  name_bytes,   \* the encoded name
  name_len,     \* extract_archive: the decoded filename length
  size,         \* the file size written to or decoded from the header
  remaining,    \* the content bytes still to copy
  chunk,        \* the bytes of the last read, until they are written
  rx_field,     \* read_exact: the field its caller is reading
  rx_remaining, \* read_exact: remaining
  rx_chunks,    \* read_exact: chunks, kept joined (the list is only ever joined)
  fault,        \* history: a system call raised (other than the open of a missing file)
  changed,      \* history: a file changed while it was being archived
  fs0,          \* history: the file system when the running process started
  events        \* history: the files created and closed by extract_archive

vars ==
  <<mode, pc, filenames, idx, fs, stdin, inPos, stdout, stderr, status, shortReads,
    fd, out_fd, name, name_bytes, name_len, size, remaining, chunk,
    rx_field, rx_remaining, rx_chunks, fault, changed, fs0, events>>

\* the variables of the process that the environment does not touch
locals ==
  <<mode, pc, filenames, idx, stdin, inPos, stdout, stderr, status, shortReads,
    fd, out_fd, name, name_bytes, name_len, size, remaining, chunk,
    rx_field, rx_remaining, rx_chunks, fault, fs0, events>>

Closed == [open |-> FALSE, path |-> <<>>, off |-> 0]

Running == status = -1

\* the worlds a create run starts in: the paths, the files, the kind of reads
CreateWorlds ==
  UNION {{[paths |-> a, files |-> f, short |-> TRUE] : f \in FilesOver(Range(a))} :
           a \in SeqsUpTo(SmallNames, MaxFiles)}
  \cup {[paths |-> <<NameBig>>, files |-> (NameBig :> BigContent), short |-> FALSE]}

\* the worlds an extract run starts in
ExtractWorlds ==
  {[stream |-> s, files |-> (NameA :> OldContent) @@ (NameE :> OldContent),
    short |-> TRUE] : s \in Streams}
  \cup {[stream |-> s, files |-> (NameA :> OldContent) @@ (NameE :> OldContent),
          short |-> FALSE] : s \in LongName}

\* main(): "c" with at least one file calls create_archive, "x" extract_archive
Init ==
  /\ pc \in {"c_for", "rx_read"}
  /\ mode = IF pc = "c_for" THEN "c" ELSE "x"
  /\ \/ /\ mode = "c"
        /\ \E w \in CreateWorlds :
             /\ filenames = w.paths
             /\ fs = w.files
             /\ shortReads = w.short
        /\ stdin = <<>>
     \/ /\ mode = "x"
        /\ \E w \in ExtractWorlds :
             /\ stdin = w.stream
             /\ fs = w.files
             /\ shortReads = w.short
        /\ filenames = <<>>
  /\ idx = 1
  /\ inPos = 0
  /\ stdout = <<>>
  /\ stderr = <<>>
  /\ status = -1
  /\ fd = Closed
  /\ out_fd = Closed
  /\ name = <<>>
  /\ name_bytes = <<>>
  /\ name_len = PyInt(0)
  /\ size = PyInt(0)
  /\ remaining = PyInt(0)
  /\ chunk = <<>>
  /\ rx_field = "len"
  /\ rx_remaining = PyInt(LEN_WIDTH)
  /\ rx_chunks = <<>>
  /\ fault = FALSE
  /\ changed = FALSE
  /\ fs0 = fs
  /\ events = <<>>

(***************************************************************************)
(* die and the uncaught exception.                                          *)
(***************************************************************************)
Line(msg, arg) == [prefix |-> "mytar: ", msg |-> msg, arg |-> arg]

\* what the interpreter prints for an exception nobody catches
Traceback(exc) ==
  << [prefix |-> "Traceback (most recent call last):", msg |-> "", arg |-> <<>>],
     [prefix |-> "  File ", msg |-> "", arg |-> <<>>],
     [prefix |-> exc, msg |-> "", arg |-> <<>>] >>

\* die(msg): one line on descriptor 2, then sys.exit(1)
die(msg, arg) ==
  /\ stderr' = Append(stderr, Line(msg, arg))
  /\ status' = 1
  /\ pc' = "exit"

\* an exception reaches the top level: the traceback, then exit status 1
uncaught(exc) ==
  /\ stderr' = stderr \o Traceback(exc)
  /\ status' = 1
  /\ pc' = "exit"

\* the byte counts os.read may return when m > 0 bytes can be returned
ReadCounts(m) == {m} \cup (IF shortReads THEN 1..Min(m, MaxShort) ELSE {})

(***************************************************************************)
(* The environment: another process changes the file being archived, once, *)
(* after its size was taken and before a read of the copy loop: the file   *)
(* loses its last byte or all of them while bytes remain to be copied, or  *)
(* it grows.                                                               *)
(***************************************************************************)
GrowBytes == <<33>>

Shrink ==
  /\ Running /\ mode = "c" /\ pc = "c_while" /\ fd.open /\ ~changed
  /\ IntPositive(remaining)
  /\ Len(fs[fd.path]) > 0
  /\ \E n \in {0, Len(fs[fd.path]) - 1} :
       fs' = [fs EXCEPT ![fd.path] = SubSeq(@, 1, n)]
  /\ changed' = TRUE
  /\ UNCHANGED locals

Grow ==
  /\ Running /\ mode = "c" /\ pc = "c_while" /\ fd.open /\ ~changed
  /\ fs' = [fs EXCEPT ![fd.path] = @ \o GrowBytes]
  /\ changed' = TRUE
  /\ UNCHANGED locals

(***************************************************************************)
(* create_archive                                                           *)
(***************************************************************************)
\* a variant that walks the list from its end
NextName_rev(fl, i) == fl[Len(fl) + 1 - i]

\* for name in filenames: the name of iteration i
NextName(fl, i) == fl[i]

\* for name in filenames; falling off the loop returns to main, which returns
CreateFor ==
  /\ Running /\ pc = "c_for"
  /\ IF idx <= Len(filenames)
     THEN /\ name' = NextName(filenames, idx)
          /\ pc' = "c_open"
          /\ UNCHANGED status
     ELSE /\ status' = 0
          /\ pc' = "exit"
          /\ UNCHANGED name
  /\ UNCHANGED <<mode, filenames, idx, fs, stdin, inPos, stdout, stderr, shortReads,
                 fd, out_fd, name_bytes, name_len, size, remaining, chunk,
                 rx_field, rx_remaining, rx_chunks, fault, changed, fs0, events>>

\* a variant that returns instead of dying
OpenError_return ==
  /\ status' = 0
  /\ pc' = "exit"
  /\ UNCHANGED stderr

\* except OSError: die(f"cannot open file '{name}'")
OpenError == die("cannot open file", name)

\* fd = os.open(name, os.O_RDONLY), or die on OSError: the file is missing, or
\* it is there and cannot be opened
CreateOpen ==
  /\ Running /\ pc = "c_open"
  /\ \/ /\ name \in DOMAIN fs
        /\ fd' = [open |-> TRUE, path |-> name, off |-> 0]
        /\ pc' = "c_fstat"
        /\ UNCHANGED <<stderr, status, fault>>
     \/ /\ name \notin DOMAIN fs
        /\ OpenError
        /\ UNCHANGED <<fd, fault>>
     \/ /\ name \in DOMAIN fs
        /\ OpenError
        /\ fault' = TRUE
        /\ UNCHANGED fd
  /\ UNCHANGED <<mode, filenames, idx, fs, stdin, inPos, stdout, shortReads,
                 out_fd, name, name_bytes, name_len, size, remaining, chunk,
                 rx_field, rx_remaining, rx_chunks, changed, fs0, events>>

\* st = os.fstat(fd), or close and die on OSError; size and name_bytes
CreateFstat ==
  /\ Running /\ pc = "c_fstat"
  /\ \/ /\ size' = PyInt(Len(fs[fd.path]))
        /\ name_bytes' = str_encode(name)
        /\ pc' = "c_wlen"
        /\ UNCHANGED <<fd, stderr, status, fault>>
     \/ /\ fd' = Closed
        /\ die("cannot stat file", name)
        /\ fault' = TRUE
        /\ UNCHANGED <<size, name_bytes>>
  /\ UNCHANGED <<mode, filenames, idx, fs, stdin, inPos, stdout, shortReads,
                 out_fd, name, name_len, remaining, chunk,
                 rx_field, rx_remaining, rx_chunks, changed, fs0, events>>

\* a variant that writes the number of characters of the name
LenField_chars(nm, nb) == to_bytes(PyInt(Len(nm)), LEN_WIDTH)

\* len(name_bytes).to_bytes(4, 'big')
LenField(nm, nb) == to_bytes(PyInt(Len(nb)), LEN_WIDTH)

\* os.write(out_fd, len(name_bytes).to_bytes(4, 'big'))
CreateWriteLen ==
  /\ Running /\ pc = "c_wlen"
  /\ stdout' = stdout \o LenField(name, name_bytes)
  /\ pc' = "c_wname"
  /\ UNCHANGED <<mode, filenames, idx, fs, stdin, inPos, stderr, status, shortReads,
                 fd, out_fd, name, name_bytes, name_len, size, remaining, chunk,
                 rx_field, rx_remaining, rx_chunks, fault, changed, fs0, events>>

\* os.write(out_fd, name_bytes)
CreateWriteName ==
  /\ Running /\ pc = "c_wname"
  /\ stdout' = stdout \o name_bytes
  /\ pc' = "c_wsize"
  /\ UNCHANGED <<mode, filenames, idx, fs, stdin, inPos, stderr, status, shortReads,
                 fd, out_fd, name, name_bytes, name_len, size, remaining, chunk,
                 rx_field, rx_remaining, rx_chunks, fault, changed, fs0, events>>

\* os.write(out_fd, size.to_bytes(8, 'big')); remaining = size
CreateWriteSize ==
  /\ Running /\ pc = "c_wsize"
  /\ stdout' = stdout \o to_bytes(size, SIZE_WIDTH)
  /\ remaining' = size
  /\ pc' = "c_while"
  /\ UNCHANGED <<mode, filenames, idx, fs, stdin, inPos, stderr, status, shortReads,
                 fd, out_fd, name, name_bytes, name_len, size, chunk,
                 rx_field, rx_remaining, rx_chunks, fault, changed, fs0, events>>

\* a variant that asks for a full buffer whatever remains
ReadSize_buf(rem) == BUF_SIZE

\* min(BUF_SIZE, remaining) of create_archive
ReadSize(rem) == IntMin(BUF_SIZE, rem)

\* the bytes of file f from offset off on
Available(f, off) == IF Len(f) > off THEN Len(f) - off ELSE 0

\* a variant that returns instead of dying
CreateEof_return ==
  /\ fd' = Closed
  /\ status' = 0
  /\ pc' = "exit"
  /\ UNCHANGED stderr

\* if not chunk: os.close(fd); die(f"unexpected EOF reading '{name}'")
CreateEof ==
  /\ fd' = Closed
  /\ die("unexpected EOF reading", name)

\* while remaining > 0: chunk = os.read(fd, min(BUF_SIZE, remaining));
\* an empty chunk: close and die
CreateRead ==
  /\ Running /\ pc = "c_while" /\ IntPositive(remaining)
  /\ LET file  == fs[fd.path]
         avail == Available(file, fd.off)
     IN IF avail = 0
        THEN /\ CreateEof
             /\ UNCHANGED chunk
        ELSE /\ \E k \in ReadCounts(Min(ReadSize(remaining), avail)) :
                  /\ chunk' = SubSeq(file, fd.off + 1, fd.off + k)
                  /\ fd' = [fd EXCEPT !.off = @ + k]
             /\ pc' = "c_write"
             /\ UNCHANGED <<stderr, status>>
  /\ UNCHANGED <<mode, filenames, idx, fs, stdin, inPos, stdout, shortReads,
                 out_fd, name, name_bytes, name_len, size, remaining,
                 rx_field, rx_remaining, rx_chunks, fault, changed, fs0, events>>

\* os.write(out_fd, chunk); remaining -= len(chunk)
CreateWrite ==
  /\ Running /\ pc = "c_write"
  /\ stdout' = stdout \o chunk
  /\ remaining' = IntSub(remaining, Len(chunk))
  /\ chunk' = <<>>
  /\ pc' = "c_while"
  /\ UNCHANGED <<mode, filenames, idx, fs, stdin, inPos, stderr, status, shortReads,
                 fd, out_fd, name, name_bytes, name_len, size,
                 rx_field, rx_remaining, rx_chunks, fault, changed, fs0, events>>

\* the while loop ends: os.close(fd), and on to the next name
CreateClose ==
  /\ Running /\ pc = "c_while" /\ ~IntPositive(remaining)
  /\ fd' = Closed
  /\ idx' = idx + 1
  /\ pc' = "c_for"
  /\ UNCHANGED <<mode, filenames, fs, stdin, inPos, stdout, stderr, status, shortReads,
                 out_fd, name, name_bytes, name_len, size, remaining, chunk,
                 rx_field, rx_remaining, rx_chunks, fault, changed, fs0, events>>

(***************************************************************************)
(* read_exact(fd, n), called for the three header fields                    *)
(***************************************************************************)
\* a call of read_exact(in_fd, n) for the given field
CallReadExact(field, n) ==
  /\ rx_field' = field
  /\ rx_remaining' = n
  /\ rx_chunks' = <<>>
  /\ pc' = "rx_read"

\* a variant that never takes a read for empty
NoData_never(data) == FALSE

\* if not data
NoData(data) == data = <<>>

\* while remaining > 0: data = os.read(fd, remaining); no data: break
ReadExactRead ==
  /\ Running /\ pc = "rx_read" /\ IntPositive(rx_remaining)
  /\ LET avail == Available(stdin, inPos)
     IN \E k \in (IF avail = 0 THEN {0} ELSE ReadCounts(IntMin(avail, rx_remaining))) :
          LET data == SubSeq(stdin, inPos + 1, inPos + k)
          IN IF NoData(data)
             THEN /\ pc' = "rx_ret"
                  /\ UNCHANGED <<inPos, rx_chunks, rx_remaining>>
             ELSE /\ rx_chunks' = rx_chunks \o data
                  /\ inPos' = inPos + k
                  /\ rx_remaining' = IntSub(rx_remaining, k)
                  /\ pc' = "rx_read"
  /\ UNCHANGED <<mode, filenames, idx, fs, stdin, stdout, stderr, status, shortReads,
                 fd, out_fd, name, name_bytes, name_len, size, remaining, chunk,
                 rx_field, fault, changed, fs0, events>>

\* read_exact returns: its locals are gone
ReturnReadExact ==
  /\ rx_remaining' = PyInt(0)
  /\ rx_chunks' = <<>>

\* a variant that returns as soon as a read has brought bytes
Returning_first == pc = "rx_ret" \/ (pc = "rx_read" /\ rx_chunks # <<>>)

\* read_exact is about to return b"".join(chunks)
Returning == pc = "rx_ret" \/ (pc = "rx_read" /\ ~IntPositive(rx_remaining))

(***************************************************************************)
(* extract_archive                                                          *)
(***************************************************************************)
\* a variant that takes a short filename length for the end of the archive
IsEof_short(raw_len) == Len(raw_len) < LEN_WIDTH

\* if len(raw_len) == 0: normal EOF
IsEof(raw_len) == Len(raw_len) = 0

\* a variant that only notices a file size that is missing altogether
SizeShort_none(raw_size) == Len(raw_size) = 0

\* if len(raw_size) < 8
SizeShort(raw_size) == Len(raw_size) < SIZE_WIDTH

\* raw_len = read_exact(in_fd, 4) has returned: the end of the archive, or
\* name_len, and the call of read_exact(in_fd, name_len)
ExtractLen ==
  /\ Running /\ mode = "x" /\ Returning /\ rx_field = "len"
  /\ LET raw_len == join(rx_chunks)
     IN IF IsEof(raw_len)
        THEN /\ status' = 0
             /\ pc' = "exit"
             /\ ReturnReadExact
             /\ UNCHANGED <<stderr, name_len, rx_field>>
        ELSE IF Len(raw_len) < LEN_WIDTH
        THEN /\ die("corrupted archive (incomplete filename length)", <<>>)
             /\ ReturnReadExact
             /\ UNCHANGED <<name_len, rx_field>>
        ELSE /\ name_len' = int_from_bytes(raw_len)
             /\ IF IntNotPositive(name_len')
                THEN /\ die("corrupted archive (invalid filename length)", <<>>)
                     /\ ReturnReadExact
                     /\ UNCHANGED rx_field
                ELSE /\ CallReadExact("name", name_len')
                     /\ UNCHANGED <<stderr, status>>
  /\ UNCHANGED <<mode, filenames, idx, fs, stdin, inPos, stdout, shortReads,
                 fd, out_fd, name, name_bytes, size, remaining, chunk,
                 fault, changed, fs0, events>>

\* name_bytes = read_exact(in_fd, name_len) has returned: name, and the call
\* of read_exact(in_fd, 8)
ExtractName ==
  /\ Running /\ mode = "x" /\ Returning /\ rx_field = "name"
  /\ name_bytes' = join(rx_chunks)
  /\ IF IntGreater(name_len, Len(name_bytes'))
     THEN /\ die("corrupted archive (incomplete filename)", <<>>)
          /\ ReturnReadExact
          /\ UNCHANGED <<name, rx_field>>
     ELSE IF ~CanDecode(name_bytes')
     THEN /\ die("corrupted archive (filename encoding)", <<>>)
          /\ ReturnReadExact
          /\ UNCHANGED <<name, rx_field>>
     ELSE /\ name' = bytes_decode(name_bytes')
          /\ CallReadExact("size", PyInt(SIZE_WIDTH))
          /\ UNCHANGED <<stderr, status>>
  /\ UNCHANGED <<mode, filenames, idx, fs, stdin, inPos, stdout, shortReads,
                 fd, out_fd, name_len, size, remaining, chunk,
                 fault, changed, fs0, events>>

\* raw_size = read_exact(in_fd, 8) has returned: size
ExtractSize ==
  /\ Running /\ mode = "x" /\ Returning /\ rx_field = "size"
  /\ ReturnReadExact
  /\ LET raw_size == join(rx_chunks)
     IN IF SizeShort(raw_size)
        THEN /\ die("corrupted archive (incomplete file size)", <<>>)
             /\ UNCHANGED size
        ELSE /\ size' = int_from_bytes(raw_size)
             /\ IF IntNegative(size')
                THEN die("corrupted archive (invalid file size)", <<>>)
                ELSE /\ pc' = "x_open"
                     /\ UNCHANGED <<stderr, status>>
  /\ UNCHANGED <<mode, filenames, idx, fs, stdin, inPos, stdout, shortReads,
                 fd, out_fd, name, name_bytes, name_len, remaining, chunk,
                 rx_field, fault, changed, fs0, events>>

\* a variant that opens without O_TRUNC
Truncated_keep(files, path) ==
  [n \in DOMAIN files \cup {path} |-> IF n \in DOMAIN files THEN files[n] ELSE <<>>]

\* the file system after open(path, O_WRONLY | O_CREAT | O_TRUNC)
Truncated(files, path) ==
  [n \in DOMAIN files \cup {path} |-> IF n = path THEN <<>> ELSE files[n]]

\* os.open refuses a path that holds a null character with a ValueError
HasNull(path) == \E i \in DOMAIN path : path[i] = 0

\* out_fd = os.open(name, os.O_WRONLY | os.O_CREAT | os.O_TRUNC, 0o644), or die
\* on OSError; remaining = size
ExtractOpen ==
  /\ Running /\ pc = "x_open"
  /\ IF HasNull(name)
     THEN /\ uncaught("ValueError")
          /\ fault' = TRUE
          /\ UNCHANGED <<fs, out_fd, remaining, events>>
     ELSE \/ /\ fs' = Truncated(fs, name)
             /\ out_fd' = [open |-> TRUE, path |-> name, off |-> 0]
             /\ remaining' = size
             /\ events' = Append(events, [op |-> "open", path |-> name])
             /\ pc' = "x_while"
             /\ UNCHANGED <<stderr, status, fault>>
          \/ /\ die("cannot create output file", name)
             /\ fault' = TRUE
             /\ UNCHANGED <<fs, out_fd, remaining, events>>
  /\ UNCHANGED <<mode, filenames, idx, stdin, inPos, stdout, shortReads,
                 fd, name, name_bytes, name_len, size, chunk,
                 rx_field, rx_remaining, rx_chunks, changed, fs0>>

\* a variant that asks for a full buffer whatever remains
ExtractReadSize_buf(rem) == BUF_SIZE

\* min(BUF_SIZE, remaining) of extract_archive
ExtractReadSize(rem) == IntMin(BUF_SIZE, rem)

\* while remaining > 0: chunk = os.read(in_fd, min(BUF_SIZE, remaining));
\* an empty chunk: close and die
ExtractRead ==
  /\ Running /\ pc = "x_while" /\ IntPositive(remaining)
  /\ LET avail == Available(stdin, inPos)
     IN IF avail = 0
        THEN /\ out_fd' = Closed
             /\ events' = Append(events, [op |-> "close", path |-> out_fd.path])
             /\ die("corrupted archive (unexpected EOF in file data)", <<>>)
             /\ UNCHANGED <<chunk, inPos>>
        ELSE /\ \E k \in ReadCounts(Min(ExtractReadSize(remaining), avail)) :
                  /\ chunk' = SubSeq(stdin, inPos + 1, inPos + k)
                  /\ inPos' = inPos + k
             /\ pc' = "x_write"
             /\ UNCHANGED <<out_fd, events, stderr, status>>
  /\ UNCHANGED <<mode, filenames, idx, fs, stdin, stdout, shortReads,
                 fd, name, name_bytes, name_len, size, remaining,
                 rx_field, rx_remaining, rx_chunks, fault, changed, fs0>>

\* a variant that writes every chunk at the start of the file
Written_rewind(content, off, data) == data

\* the content of a file after data is written at offset off
Written(content, off, data) ==
  SubSeq(content, 1, off) \o data \o SubSeq(content, off + Len(data) + 1, Len(content))

\* os.write(out_fd, chunk); remaining -= len(chunk)
ExtractWrite ==
  /\ Running /\ pc = "x_write"
  /\ fs' = [fs EXCEPT ![out_fd.path] = Written(@, out_fd.off, chunk)]
  /\ out_fd' = [out_fd EXCEPT !.off = @ + Len(chunk)]
  /\ remaining' = IntSub(remaining, Len(chunk))
  /\ chunk' = <<>>
  /\ pc' = "x_while"
  /\ UNCHANGED <<mode, filenames, idx, stdin, inPos, stdout, stderr, status,
                 shortReads, fd, name, name_bytes, name_len, size,
                 rx_field, rx_remaining, rx_chunks, fault, changed, fs0, events>>

\* the while loop ends: os.close(out_fd), and back to the top of while True
ExtractClose ==
  /\ Running /\ pc = "x_while" /\ ~IntPositive(remaining)
  /\ out_fd' = Closed
  /\ events' = Append(events, [op |-> "close", path |-> out_fd.path])
  /\ CallReadExact("len", PyInt(LEN_WIDTH))
  /\ UNCHANGED <<mode, filenames, idx, fs, stdin, inPos, stdout, stderr, status,
                 shortReads, fd, name, name_bytes, name_len, size, remaining, chunk,
                 fault, changed, fs0>>

(***************************************************************************)
(* A read or a write raises OSError.  Neither function catches it there:    *)
(* the interpreter prints the traceback and exits with status 1, and no     *)
(* descriptor is closed first.                                              *)
(***************************************************************************)
AtReadOrWrite ==
  \/ pc \in {"c_wlen", "c_wname", "c_wsize", "c_write", "x_write"}
  \/ pc \in {"c_while", "x_while"} /\ IntPositive(remaining)
  \/ pc = "rx_read" /\ IntPositive(rx_remaining)

Raise ==
  /\ Running /\ AtReadOrWrite
  /\ uncaught("OSError")
  /\ fault' = TRUE
  /\ UNCHANGED <<mode, filenames, idx, fs, stdin, inPos, stdout, shortReads,
                 fd, out_fd, name, name_bytes, name_len, size, remaining, chunk,
                 rx_field, rx_remaining, rx_chunks, changed, fs0, events>>

(***************************************************************************)
(* main: after "mytar.py c file..." has exited with status 0, its output is *)
(* given to "mytar.py x" in the same directory.                             *)
(***************************************************************************)
StartExtract ==
  /\ mode = "c" /\ status = 0
  /\ mode' = "x"
  /\ stdin' = stdout
  /\ inPos' = 0
  /\ status' = -1
  /\ fs0' = fs
  /\ CallReadExact("len", PyInt(LEN_WIDTH))
  /\ UNCHANGED <<filenames, idx, fs, stdout, stderr, shortReads,
                 fd, out_fd, name, name_bytes, name_len, size, remaining, chunk,
                 fault, changed, events>>

Next ==
  \/ CreateFor \/ CreateOpen \/ CreateFstat
  \/ CreateWriteLen \/ CreateWriteName \/ CreateWriteSize
  \/ CreateRead \/ CreateWrite \/ CreateClose
  \/ ReadExactRead \/ ExtractLen \/ ExtractName \/ ExtractSize
  \/ ExtractOpen \/ ExtractRead \/ ExtractWrite \/ ExtractClose
  \/ Raise \/ Shrink \/ Grow \/ StartExtract

Spec == Init /\ [][Next]_vars

(***************************************************************************)
(* The process is single-threaded and every call blocks until it returns:   *)
(* a process that can take its next step takes it.  Nothing is assumed of   *)
(* the environment (a file changing, a call failing) or of a second run.    *)
(***************************************************************************)
Step ==
  \/ CreateFor \/ CreateOpen \/ CreateFstat
  \/ CreateWriteLen \/ CreateWriteName \/ CreateWriteSize
  \/ CreateRead \/ CreateWrite \/ CreateClose
  \/ ReadExactRead \/ ExtractLen \/ ExtractName \/ ExtractSize
  \/ ExtractOpen \/ ExtractRead \/ ExtractWrite \/ ExtractClose

LiveSpec == Init /\ [][Next]_vars /\ WF_vars(Step)

(***************************************************************************)
(* What the format says a decoder makes of a stream s from position p on,   *)
(* with the files and the list of created names so far: where the stream    *)
(* stops being a sequence of records (end), the files it leaves, the names  *)
(* it created in order, and the input it consumed.                          *)
(***************************************************************************)
Stop(end, files, opened, pos) ==
  [end |-> end, files |-> files, opened |-> opened, pos |-> pos]

\* the files with the one called nm holding data
WithFile(files, nm, data) ==
  [x \in DOMAIN files \cup {nm} |-> IF x = nm THEN data ELSE files[x]]

RECURSIVE Decoded(_, _, _, _)
Decoded(s, p, files, opened) ==
  LET rest == Len(s) - p
      nl   == Strip(SubSeq(s, p + 1, p + LEN_WIDTH))
      n    == NumVal(nl)
      nb   == SubSeq(s, p + LEN_WIDTH + 1, p + LEN_WIDTH + n)
      q    == p + LEN_WIDTH + n
      sz   == Strip(SubSeq(s, q + 1, q + SIZE_WIDTH))
      d    == q + SIZE_WIDTH
      nm   == bytes_decode(nb)
  IN IF rest = 0 THEN Stop("eof", files, opened, p)
     ELSE IF rest < LEN_WIDTH THEN Stop("len_short", files, opened, Len(s))
     ELSE IF nl = <<>> THEN Stop("len_zero", files, opened, p + LEN_WIDTH)
     ELSE IF ~NumFits(nl) \/ n > rest - LEN_WIDTH
          THEN Stop("name_short", files, opened, Len(s))
     ELSE IF ~CanDecode(nb) THEN Stop("name_utf8", files, opened, q)
     ELSE IF Len(s) - q < SIZE_WIDTH THEN Stop("size_short", files, opened, Len(s))
     ELSE IF ~NumFits(sz) \/ NumVal(sz) > Len(s) - d
          THEN Stop("data_short", WithFile(files, nm, SubSeq(s, d + 1, Len(s))),
                    Append(opened, nm), Len(s))
     ELSE Decoded(s, d + NumVal(sz),
                  WithFile(files, nm, SubSeq(s, d + 1, d + NumVal(sz))),
                  Append(opened, nm))

(***************************************************************************)
(* Shorthands of the properties.                                            *)
(***************************************************************************)
NoFiles == [x \in {} |-> <<>>]

Terminated == status # -1

\* the names extract_archive created, in order
Opened ==
  LET opens == SelectSeq(events, LAMBDA e : e.op = "open")
  IN [i \in 1..Len(opens) |-> opens[i].path]

\* what the format makes of the whole input of the extract run
Expected == Decoded(stdin, 0, fs0, <<>>)

\* the diagnostic of each way a stream stops being a sequence of records
Diagnostic(end) ==
  CASE end = "len_short"  -> "corrupted archive (incomplete filename length)"
    [] end = "len_zero"   -> "corrupted archive (invalid filename length)"
    [] end = "name_short" -> "corrupted archive (incomplete filename)"
    [] end = "name_utf8"  -> "corrupted archive (filename encoding)"
    [] end = "size_short" -> "corrupted archive (incomplete file size)"
    [] end = "data_short" -> "corrupted archive (unexpected EOF in file data)"
    [] OTHER              -> ""

\* the process died with this one diagnostic
DiedWith(msg, arg) == status = 1 /\ stderr = <<Line(msg, arg)>>

\* the create run was given files that are all there
AllThere == \A i \in DOMAIN filenames : filenames[i] \in DOMAIN fs0

(***************************************************************************)
(* C1  Round trip: create_archive on a list of readable files that do not   *)
(* change, followed by extract_archive on the stream it wrote, ends with    *)
(* exit status 0 in both runs and leaves every listed file with its name    *)
(* and its content, the files having been created in the order of the list. *)
(* Stated for the runs in which no system call fails.                       *)
(***************************************************************************)
C1_RoundTrip ==
  (filenames # <<>> /\ AllThere /\ ~fault /\ ~changed /\ Terminated) =>
    /\ status = 0
    /\ stderr = <<>>
    /\ mode = "x" =>
         /\ Opened = filenames
         /\ \A i \in DOMAIN filenames :
              filenames[i] \in DOMAIN fs /\ fs[filenames[i]] = fs0[filenames[i]]
         /\ inPos = Len(stdin)

\* the round trip of the file that is longer than the transfer buffer, under
\* a name of four UTF-8 bytes
C1_Witness ==
  /\ mode = "x" /\ status = 0 /\ ~fault /\ ~changed
  /\ filenames = <<NameBig>>
  /\ Len(fs[NameBig]) > BUF_SIZE
  /\ fs[NameBig] = BigContent
  /\ Len(str_encode(NameBig)) > Len(NameBig)

(***************************************************************************)
(* C2  The end of the stream is accepted only at a record boundary:         *)
(* extract_archive exits with status 0 only when the input is a sequence of *)
(* whole records, all of it read, and the read of a filename length found   *)
(* no byte; when the input ends inside a record, or stops being a sequence  *)
(* of records in any other way, the exit status is 1, and (when no system   *)
(* call fails) the one diagnostic is that of the corruption.                *)
(***************************************************************************)
C2_EofOnlyAtBoundary ==
  (mode = "x" /\ Terminated) =>
    /\ status = 0 =>
         /\ Expected.end = "eof"
         /\ inPos = Len(stdin)
         /\ rx_field = "len"
    /\ (Expected.end = "eof" /\ ~fault) => status = 0
    /\ Expected.end # "eof" => status = 1
    /\ (Expected.end # "eof" /\ ~fault) => DiedWith(Diagnostic(Expected.end), <<>>)

\* a stream that ends after 1 to 3 bytes of a filename length, past a whole record
C2_Witness ==
  /\ mode = "x" /\ Terminated /\ ~fault
  /\ Expected.end = "len_short"
  /\ Expected.opened # <<>>
  /\ status = 1

(***************************************************************************)
(* C3  Content cut short: when the input ends with k < L bytes of a record  *)
(* that declares L content bytes, extract_archive dies with "unexpected EOF *)
(* in file data", and the file of that record is there and holds exactly    *)
(* those k bytes.  Stated for the runs in which no system call fails.       *)
(***************************************************************************)
C3_MidContent ==
  (mode = "x" /\ Terminated /\ ~fault /\ Expected.end = "data_short") =>
    /\ DiedWith("corrupted archive (unexpected EOF in file data)", <<>>)
    /\ name \in DOMAIN fs
    /\ fs[name] = SubSeq(stdin, Len(stdin) - Len(fs[name]) + 1, Len(stdin))
    /\ IntGreater(size, Len(fs[name]))
    /\ fs = Expected.files
    /\ inPos = Len(stdin)

\* two of the three declared bytes arrived, over the older and longer file
C3_Witness ==
  /\ mode = "x" /\ Terminated /\ ~fault /\ Expected.end = "data_short"
  /\ name = NameEuro
  /\ fs[name] = <<255, 10>>
  /\ size = PyInt(3)

(***************************************************************************)
(* C4  A corrupt header writes nothing: when the input ends inside a name   *)
(* or inside a file size, or a name is not UTF-8, extract_archive dies with *)
(* the diagnostic of that corruption, the files are exactly what the        *)
(* records before left (no file is created, truncated or written for the    *)
(* corrupt record), and no descriptor is open.  Stated for the runs in      *)
(* which no system call fails.                                              *)
(***************************************************************************)
C4_HeaderCorruption ==
  (mode = "x" /\ Terminated /\ ~fault
     /\ Expected.end \in {"name_short", "name_utf8", "size_short"}) =>
    /\ DiedWith(Diagnostic(Expected.end), <<>>)
    /\ fs = Expected.files
    /\ Opened = Expected.opened
    /\ Len(events) = 2 * Len(Opened)
    /\ ~out_fd.open

\* the stream ends inside the file size of a second record, whose name is that
\* of an older file: the first record's file is written, the older file intact
C4_Witness ==
  /\ mode = "x" /\ Terminated /\ ~fault
  /\ Expected.end = "size_short"
  /\ Opened = <<NameE>>
  /\ name = NameA
  /\ fs[NameA] = OldContent
  /\ fs[NameE] = <<0>>

(***************************************************************************)
(* C5  A filename length of 0 is rejected: when the decoder comes to a      *)
(* filename length field that holds 0, it dies with "invalid filename       *)
(* length" whatever follows, reads nothing past the field, and creates no   *)
(* file for that record or a later one.  Stated for the runs in which no    *)
(* system call fails.                                                       *)
(***************************************************************************)
C5_ZeroLength ==
  (mode = "x" /\ Terminated /\ ~fault /\ Expected.end = "len_zero") =>
    /\ DiedWith("corrupted archive (invalid filename length)", <<>>)
    /\ inPos = Expected.pos
    /\ SubSeq(stdin, inPos - LEN_WIDTH + 1, inPos) = to_bytes(PyInt(0), LEN_WIDTH)
    /\ fs = Expected.files
    /\ Opened = Expected.opened
    /\ ~out_fd.open

\* the zero length stands between a record and a well-formed archive
C5_Witness ==
  /\ mode = "x" /\ Terminated /\ ~fault /\ Expected.end = "len_zero"
  /\ Opened # <<>>
  /\ LET after == Decoded(SubSeq(stdin, inPos + 1, Len(stdin)), 0, NoFiles, <<>>)
     IN after.end = "eof" /\ after.opened # <<>>

(***************************************************************************)
(* C6  Order: create_archive has written, each time it comes to the next    *)
(* path, exactly the records of the paths before it, in the order of the    *)
(* list; extract_archive opens and closes one file at a time, and each time *)
(* it comes to the next record the files of all the records before it have  *)
(* been created, written in full and closed, in the order of the stream     *)
(* and once per record, repeated names included.                            *)
(***************************************************************************)
\* the records of the first n paths, with the contents the run started with
RecordsOf(n) == [i \in 1..n |-> [name |-> filenames[i], data |-> fs0[filenames[i]]]]

C6_Order ==
  /\ (mode = "c" /\ pc = "c_for") =>
       /\ Decoded(stdout, 0, NoFiles, <<>>).end = "eof"
       /\ Decoded(stdout, 0, NoFiles, <<>>).opened = SubSeq(filenames, 1, idx - 1)
       /\ ~changed => stdout = Archive(RecordsOf(idx - 1))
  /\ mode = "x" =>
       /\ \A i \in DOMAIN events :
            /\ events[i].op = (IF i % 2 = 1 THEN "open" ELSE "close")
            /\ i % 2 = 0 => events[i].path = events[i - 1].path
       /\ out_fd.open <=> Len(events) % 2 = 1
  /\ (mode = "x" /\ Running /\ pc = "rx_read" /\ rx_field = "len" /\ rx_chunks = <<>>) =>
       LET before == Decoded(SubSeq(stdin, 1, inPos), 0, fs0, <<>>)
       IN /\ before.end = "eof"
          /\ Opened = before.opened
          /\ fs = before.files
          /\ ~out_fd.open
  /\ (mode = "x" /\ filenames # <<>> /\ status = 0) => Opened = filenames

\* two files, listed against the order of their names, archived and extracted
C6_Witness ==
  /\ mode = "x" /\ status = 0
  /\ filenames = <<NameEuro, NameA>>
  /\ Opened = <<NameEuro, NameA>>
  /\ Len(events) = 4

(***************************************************************************)
(* C7  Fail fast: a run that does not end with exit status 0 ends with exit *)
(* status 1 and exactly one line on the diagnostic stream, prefixed with    *)
(* "mytar: ", also when a read or a write fails.                            *)
(***************************************************************************)
C7_FailFast ==
  (Terminated /\ status # 0) =>
    /\ status = 1
    /\ Len(stderr) = 1
    /\ stderr[1].prefix = "mytar: "

(***************************************************************************)
(* C8  Handle release: when a run has terminated, on success or on any      *)
(* failure, every descriptor the run opened has been closed.                *)
(***************************************************************************)
C8_HandlesClosed == Terminated => (~fd.open /\ ~out_fd.open)

(***************************************************************************)
(* C9  The source file ends early: when a file being copied has lost bytes  *)
(* that were still to be copied, create_archive dies with "unexpected EOF   *)
(* reading" and the path (when no system call fails); and whenever it dies  *)
(* so, the output is the records of the paths before, the header of this    *)
(* path, and fewer content bytes than the header declares: nothing of a     *)
(* later path.                                                              *)
(***************************************************************************)
\* the content bytes of the current file written so far
Copied == NumVal(size.mag) - NumVal(remaining.mag)

C9_EarlyEof ==
  (mode = "c" /\ Terminated) =>
    /\ (~fault /\ name \in DOMAIN fs /\ Len(fs[name]) < Len(fs0[name])) =>
         DiedWith("unexpected EOF reading", name)
    /\ DiedWith("unexpected EOF reading", name) =>
         /\ name = filenames[idx]
         /\ ~fd.open
         /\ size = PyInt(Len(fs0[name]))
         /\ Copied < Len(fs0[name])
         /\ stdout = Archive(RecordsOf(idx - 1))
                        \o to_bytes(PyInt(Len(str_encode(name))), LEN_WIDTH)
                        \o str_encode(name)
                        \o to_bytes(PyInt(Len(fs0[name])), SIZE_WIDTH)
                        \o SubSeq(fs0[name], 1, Copied)

\* the first of two files lost its last byte after two of its three were copied
C9_Witness ==
  /\ mode = "c" /\ DiedWith("unexpected EOF reading", name)
  /\ idx = 1 /\ Len(filenames) = 2
  /\ Len(fs0[name]) = 3
  /\ Copied = 2

(***************************************************************************)
(* C10  The open of a path fails: create_archive dies with "cannot open     *)
(* file" and the path, at the first path that is missing (when nothing else *)
(* fails first); whenever it dies so, the output is exactly the whole       *)
(* records of the paths before it, and not a byte of this or a later path.  *)
(***************************************************************************)
FirstMissing ==
  CHOOSE i \in DOMAIN filenames :
    /\ filenames[i] \notin DOMAIN fs0
    /\ \A j \in 1..(i - 1) : filenames[j] \in DOMAIN fs0

C10_OpenFailure ==
  (mode = "c" /\ Terminated) =>
    /\ (~fault /\ ~changed /\ ~AllThere) =>
         /\ DiedWith("cannot open file", filenames[FirstMissing])
         /\ idx = FirstMissing
    /\ DiedWith("cannot open file", name) =>
         /\ name = filenames[idx]
         /\ ~fd.open
         /\ Decoded(stdout, 0, NoFiles, <<>>).end = "eof"
         /\ Decoded(stdout, 0, NoFiles, <<>>).opened = SubSeq(filenames, 1, idx - 1)
         /\ ~changed => stdout = Archive(RecordsOf(idx - 1))

\* the second path is missing: the output is the record of the first
C10_Witness ==
  /\ mode = "c" /\ DiedWith("cannot open file", name)
  /\ ~fault
  /\ idx = 2
  /\ name \notin DOMAIN fs0
  /\ stdout = Record(str_encode(filenames[1]), fs0[filenames[1]])
  /\ Len(fs0[filenames[1]]) > 0

(***************************************************************************)
(* C11  Empty file: for a source file of length 0 create_archive writes the *)
(* header with a file size of 0 and no content byte (it never reads the     *)
(* file, so it never reports it as ended early); extract_archive, on a      *)
(* record with a file size of 0, creates the file empty, writes nothing to  *)
(* it, closes it and goes on to the next filename length, and when the      *)
(* stream ends right after that file size the exit status is 0.             *)
(***************************************************************************)
\* the last name extract_archive created
LastOpened == Opened[Len(Opened)]

\* s ends with t
EndsWith(s, t) == Len(s) >= Len(t) /\ SubSeq(s, Len(s) - Len(t) + 1, Len(s)) = t

C11_EmptyFile ==
  /\ size = PyInt(0) => pc \notin {"c_write", "x_write"}
  /\ (mode = "c" /\ pc = "c_while" /\ size = PyInt(0)) =>
       /\ fs0[name] = <<>>
       /\ ~IntPositive(remaining)
       /\ EndsWith(stdout, Record(str_encode(name), <<>>))
  /\ (mode = "c" /\ pc = "c_for" /\ idx > 1 /\ size = PyInt(0)) =>
       /\ EndsWith(stdout, Record(str_encode(filenames[idx - 1]), <<>>))
       /\ Decoded(stdout, 0, NoFiles, <<>>).end = "eof"
       /\ Decoded(stdout, 0, NoFiles, <<>>).files[filenames[idx - 1]] = <<>>
  /\ (mode = "c" /\ name \in DOMAIN fs0 /\ fs0[name] = <<>>) =>
       ~DiedWith("unexpected EOF reading", name)
  /\ (mode = "x" /\ pc = "x_while" /\ size = PyInt(0)) =>
       /\ out_fd.open /\ out_fd.path = name
       /\ fs[name] = <<>>
       /\ ~IntPositive(remaining)
  /\ (mode = "x" /\ Running /\ pc = "rx_read" /\ rx_field = "len" /\ rx_chunks = <<>>
        /\ events # <<>> /\ size = PyInt(0)) =>
       /\ ~out_fd.open
       /\ name = LastOpened
       /\ fs[name] = <<>>
       /\ EndsWith(SubSeq(stdin, 1, inPos), to_bytes(PyInt(0), SIZE_WIDTH))
  /\ (mode = "x" /\ Terminated /\ ~fault /\ Expected.end = "eof"
        /\ Expected.opened # <<>>
        /\ Expected.files[Expected.opened[Len(Expected.opened)]] = <<>>) =>
       /\ status = 0
       /\ Opened = Expected.opened
       /\ fs[LastOpened] = <<>>
       /\ inPos = Len(stdin)

\* a record with a file size of 0 under the name of an older file, and a record
\* after it: the older file is now empty and the next record was extracted
C11_Witness ==
  /\ mode = "x" /\ status = 0 /\ ~fault
  /\ stdin = Archive(<<[name |-> NameA, data |-> <<>>], [name |-> NameE, data |-> <<0>>]>>)
  /\ fs0[NameA] = OldContent
  /\ fs[NameA] = <<>>
  /\ fs[NameE] = <<0>>
  /\ Opened = <<NameA, NameE>>

(***************************************************************************)
(* C12  The declared length is authoritative in the encoder: while a file   *)
(* is copied the bytes written for it are a prefix of what it held when its *)
(* size was taken, never more than that size, and each time create_archive  *)
(* comes to the next path, and when it has ended with exit status 0, the    *)
(* output is exactly the records of the paths so far, each with the size    *)
(* taken by fstat in its header and exactly that many content bytes, also   *)
(* when a file has grown while it was being copied.                         *)
(***************************************************************************)
\* what the file being copied held when its size was taken: it has changed at
\* most once since the run started, by losing its end or by gaining bytes
Captured ==
  IF Len(fs[name]) < NumVal(size.mag) THEN fs0[name]
  ELSE SubSeq(fs[name], 1, NumVal(size.mag))

\* the header create_archive writes for the current file
Header ==
  to_bytes(PyInt(Len(str_encode(name))), LEN_WIDTH) \o str_encode(name)
    \o to_bytes(size, SIZE_WIDTH)

C12_DeclaredLength ==
  /\ (mode = "c" /\ pc \in {"c_while", "c_write"}) =>
       /\ Len(Captured) = NumVal(size.mag)
       /\ Copied >= 0
       /\ Len(chunk) <= NumVal(remaining.mag)
       /\ fd.off = Copied + Len(chunk)
       /\ chunk = SubSeq(Captured, Copied + 1, Copied + Len(chunk))
       /\ EndsWith(stdout, Header \o SubSeq(Captured, 1, Copied))
  /\ (mode = "c" /\ pc \in {"c_for", "exit"} /\ idx > 1 /\ ~fd.open /\ status # 1) =>
       /\ name = filenames[idx - 1]
       /\ remaining = PyInt(0)
       /\ Len(fs[name]) >= NumVal(size.mag)
       /\ EndsWith(stdout, Header \o Captured)
       /\ Decoded(stdout, 0, NoFiles, <<>>).end = "eof"
       /\ Decoded(stdout, 0, NoFiles, <<>>).opened = SubSeq(filenames, 1, idx - 1)
       /\ Decoded(stdout, 0, NoFiles, <<>>).files[name] = Captured
  /\ (mode = "c" /\ status = 0) => idx = Len(filenames) + 1

\* the first of two files grew by a byte while it was copied: the run ended with
\* exit status 0 and the record holds the three bytes the file had
C12_Witness ==
  /\ mode = "c" /\ status = 0 /\ changed
  /\ Len(filenames) = 2
  /\ Len(fs0[filenames[1]]) = 3
  /\ fs[filenames[1]] = fs0[filenames[1]] \o GrowBytes
  /\ stdout = Archive(RecordsOf(2))

(***************************************************************************)
(* C13  Framing in the decoder: all through the content loop of             *)
(* extract_archive, remaining is the file size of the header less the bytes *)
(* written to the file and is never negative; a chunk is never longer than  *)
(* BUF_SIZE or than remaining; the file holds the bytes of the stream that  *)
(* follow the file size field, as far as they were written; and when the    *)
(* record is done exactly as many bytes as the header declares have been    *)
(* consumed after it, so that the next read starts at the following record. *)
(***************************************************************************)
\* k <= n for a TLC integer k >= 0 and a Python int n
IntAtLeast(n, k) == k = 0 \/ IntGreater(n, k - 1)

C13_Framing ==
  /\ (mode = "x" /\ pc \in {"x_while", "x_write"}) =>
       LET written == out_fd.off
           start   == inPos - written - Len(chunk)
       IN /\ out_fd.open /\ out_fd.path = name
          /\ ~remaining.neg
          /\ IntAtLeast(size, written + Len(chunk))
          /\ remaining = IntSub(size, written)
          /\ Len(chunk) <= BUF_SIZE
          /\ IntAtLeast(remaining, Len(chunk))
          /\ pc = "x_write" => chunk # <<>>
          /\ start >= SIZE_WIDTH
          /\ size = [neg |-> FALSE, mag |-> Strip(SubSeq(stdin, start - SIZE_WIDTH + 1, start))]
          /\ fs[name] = SubSeq(stdin, start + 1, start + written)
          /\ chunk = SubSeq(stdin, start + written + 1, inPos)
  /\ (mode = "x" /\ Running /\ pc = "rx_read" /\ rx_field = "len" /\ rx_chunks = <<>>
        /\ events # <<>>) =>
       /\ NumFits(size.mag)
       /\ remaining = PyInt(0)
       /\ LET start == inPos - NumVal(size.mag)
          IN /\ start >= SIZE_WIDTH
             /\ size = PyInt(NumVal(Strip(SubSeq(stdin, start - SIZE_WIDTH + 1, start))))
             /\ fs[name] = SubSeq(stdin, start + 1, inPos)

\* the three content bytes of a record were consumed, in reads of one byte or
\* more, and the next record is still unread
C13_Witness ==
  /\ mode = "x" /\ Running /\ pc = "rx_read" /\ rx_field = "len" /\ rx_chunks = <<>>
  /\ filenames = <<>> /\ shortReads
  /\ name = NameEuro
  /\ fs[name] = <<255, 10, 7>>
  /\ inPos = Len(Record(str_encode(NameEuro), <<255, 10, 7>>))
  /\ Len(stdin) > inPos
  /\ Expected.end = "eof"

(***************************************************************************)
(* C14  Truncate on create: a file that extract_archive has just opened is  *)
(* empty, whatever it held before, and while it is written it holds only    *)
(* the bytes written through this descriptor; after a run that ended with   *)
(* exit status 0 every name of the archive is a file whose content is       *)
(* exactly the content of the last record with that name, and every other   *)
(* file is as it was.                                                       *)
(***************************************************************************)
RECURSIVE Parsed(_, _)
\* the records [name, data] of a well-formed archive s from position p on
Parsed(s, p) ==
  IF p >= Len(s) THEN <<>>
  ELSE LET n  == NumVal(Strip(SubSeq(s, p + 1, p + LEN_WIDTH)))
           q  == p + LEN_WIDTH + n
           sz == NumVal(Strip(SubSeq(s, q + 1, q + SIZE_WIDTH)))
           d  == q + SIZE_WIDTH
       IN <<[name |-> bytes_decode(SubSeq(s, p + LEN_WIDTH + 1, q)),
             data |-> SubSeq(s, d + 1, d + sz)]>> \o Parsed(s, d + sz)

C14_TruncateOnCreate ==
  /\ (mode = "x" /\ pc \in {"x_while", "x_write"}) =>
       /\ name \in DOMAIN fs
       /\ Len(fs[name]) = out_fd.off
  /\ (mode = "x" /\ status = 0) =>
       LET recs  == Parsed(stdin, 0)
           names == {recs[j].name : j \in DOMAIN recs}
       IN /\ DOMAIN fs = DOMAIN fs0 \cup names
          /\ \A j \in DOMAIN recs :
               (\A k \in (j + 1)..Len(recs) : recs[k].name # recs[j].name) =>
                 fs[recs[j].name] = recs[j].data
          /\ \A n \in DOMAIN fs0 \ names : fs[n] = fs0[n]

\* two records with the name of an older file of four bytes, three bytes of
\* content and then one: the file holds the one byte
C14_Witness ==
  /\ mode = "x" /\ status = 0
  /\ stdin \in Rewritten
  /\ fs0[NameE] = OldContent
  /\ fs[NameE] = <<0>>
  /\ Len(events) = 4

(***************************************************************************)
(* C15  Bounded buffers: no buffer of create_archive, extract_archive or    *)
(* read_exact ever holds more than BUF_SIZE bytes: not a chunk of a copy    *)
(* loop, not the bytes read_exact has gathered, not the filename it         *)
(* returned.                                                                *)
(***************************************************************************)
C15_BoundedBuffers ==
  /\ Len(chunk) <= BUF_SIZE
  /\ Len(rx_chunks) <= BUF_SIZE
  /\ Len(name_bytes) <= BUF_SIZE

(***************************************************************************)
(* C16  "invalid file size" is unreachable: extract_archive never writes    *)
(* the diagnostic "corrupted archive (invalid file size)"; the file size it *)
(* decodes is never negative, and once the eight bytes of the field are     *)
(* read it is their unsigned big-endian value, with which the run goes on   *)
(* to create the file, also when the first bit of the field is set.         *)
(***************************************************************************)
C16_SizeNeverInvalid ==
  /\ \A i \in DOMAIN stderr : stderr[i].msg # "corrupted archive (invalid file size)"
  /\ ~size.neg
  /\ (mode = "x" /\ pc = "x_open") =>
       /\ inPos >= SIZE_WIDTH
       /\ size.mag = Strip(SubSeq(stdin, inPos - SIZE_WIDTH + 1, inPos))
  /\ (mode = "x" /\ Terminated /\ ~fault /\ Expected.end = "data_short") =>
       /\ Opened # <<>>
       /\ LastOpened = name
       /\ IntGreater(size, Len(fs[name]))

\* a file size field whose first byte is 128 or more: the file was created
\* and the run ended at the end of the stream, inside the content
C16_Witness ==
  /\ mode = "x" /\ Terminated /\ ~fault
  /\ Len(size.mag) = SIZE_WIDTH
  /\ size.mag[1] >= 128
  /\ Opened # <<>> /\ LastOpened = name
  /\ name \in DOMAIN fs
  /\ DiedWith("corrupted archive (unexpected EOF in file data)", <<>>)

(***************************************************************************)
(* C17  Termination: a run of create_archive or of extract_archive that has *)
(* started comes to its end, with exit status 0 or 1, whatever the reads    *)
(* return (one byte or more, or nothing at the end of the file or stream).  *)
(***************************************************************************)
\* a < b for Python ints a, b >= 0
IntLess(a, b) ==
  \/ Len(a.mag) < Len(b.mag)
  \/ /\ Len(a.mag) = Len(b.mag)
     /\ \E i \in DOMAIN a.mag :
          /\ a.mag[i] < b.mag[i]
          /\ \A j \in 1..(i - 1) : a.mag[j] = b.mag[j]

\* an iteration of one of the three loops leaves less to read than before
LoopDecreases ==
  /\ (pc = "c_write" /\ pc' = "c_while") => IntLess(remaining', remaining)
  /\ (pc = "x_write" /\ pc' = "x_while") => IntLess(remaining', remaining)
  /\ (pc = "rx_read" /\ IntPositive(rx_remaining) /\ pc' = "rx_read") =>
       IntLess(rx_remaining', rx_remaining)

C17_Termination == (Running ~> Terminated) /\ [][LoopDecreases]_vars

\* an extraction of three content bytes, read a byte at a time, and of a
\* second record came to its end
C17_Witness ==
  /\ mode = "x" /\ Terminated /\ shortReads /\ filenames = <<>>
  /\ Len(Opened) = 2
  /\ Opened[1] = NameEuro
  /\ inPos = Len(stdin)
  /\ rx_field = "len"

(***************************************************************************)
(* C18  Short reads make no difference: when no system call fails, the exit *)
(* status, the diagnostic, the files created (in order) and the content of  *)
(* every file at the end of extract_archive are those the bytes of the      *)
(* input determine, however the reads split them; and a header field is     *)
(* reported as incomplete only when the whole input has been read.          *)
(***************************************************************************)
\* the diagnostics of an incomplete header field
Incomplete ==
  { "corrupted archive (incomplete filename length)",
    "corrupted archive (incomplete filename)",
    "corrupted archive (incomplete file size)" }

C18_ShortReads ==
  /\ (mode = "x" /\ Terminated /\ ~fault) =>
       /\ status = (IF Expected.end = "eof" THEN 0 ELSE 1)
       /\ stderr = (IF Expected.end = "eof" THEN <<>>
                    ELSE <<Line(Diagnostic(Expected.end), <<>>)>>)
       /\ Opened = Expected.opened
       /\ fs = Expected.files
       /\ inPos = Expected.pos
  /\ (mode = "x" /\ \E i \in DOMAIN stderr : stderr[i].msg \in Incomplete) =>
       inPos = Len(stdin)

\* a stream that ends after three of the four bytes of a filename, past a
\* record of three content bytes, where reads may return a single byte
C18_Witness ==
  /\ mode = "x" /\ Terminated /\ ~fault /\ shortReads
  /\ DiedWith("corrupted archive (incomplete filename)", <<>>)
  /\ name_len = PyInt(4)
  /\ Len(name_bytes) = 3
  /\ Opened = <<NameEuro>>
  /\ fs[NameEuro] = <<255, 10, 7>>
  /\ inPos = Len(stdin)

====
